---- MODULE Spec2Model ----
(***************************************************************************)
(* Decision/state engine of the dual ST7735 Moonraker dashboard            *)
(* (examples/screens.py): the fault classification of main()'s loop with   *)
(* its flashing error screen, the M117 message lifecycle of                *)
(* process_m117_messages(), the phase integrators and the pushes to the    *)
(* two panels; needs_redraw() on its own; and the blink cycle of the robot  *)
(* eyes (examples/eyes.py).                                                *)
(*                                                                         *)
(* Time is the value of time.monotonic() counted in abstract clock units;  *)
(* the durations of the program are scaled to these units.  Python's None  *)
(* is None for texts and NoTime for times.                                 *)
(*                                                                         *)
(* Angles and rates are floats in the program.  Here they are integers in  *)
(* units of the float spacing of the smallest values; a value of magnitude *)
(* GRID or more is representable only on multiples of GRID, and the result *)
(* of a float operation is rounded to the nearest representable value.     *)
(***************************************************************************)
EXTENDS Integers, Sequences, FiniteSets, TLC

(* ------------------------------ bounds --------------------------------- *)
MaxTime   == 5     \* the clock stops advancing here
MaxStep   == 2     \* largest clock advance between two iterations
MaxEvents == 2     \* longest gcode_store answer
MaxSeq    == 2     \* largest gcode_store entry time
MaxFeed   == 1     \* longest gcode_store answer inside the loop
MaxAge    == 4     \* oldest message a direct call starts from
MaxAdvances == 4   \* advances of the extruder integrator on its own
MaxEyeTime  == 14  \* the clock of the eye loop stops advancing here
MaxEyeStep  == 3   \* largest clock advance between two eye frames
MaxSignals  == 2   \* SIGINTs delivered to the eye process

(* ------------------------- program constants --------------------------- *)
ERROR_FLASH_PERIOD == 2   \* flash half-period, in clock units
M117_CLEAR_TIMEOUT == 3   \* message timeout, in clock units
GCODE_CHECK_EVERY  == 5   \* the feed is polled on every 5th dashboard cycle
GRID               == 3   \* float spacing of values of magnitude >= GRID
TURN               == 12  \* one full turn (2*pi), in phase units
MM_PER_REV         == 12  \* filament per revolution, in velocity units
PERIOD             == 1   \* nominal poll period 1/POLL_HZ, in clock units
DT_CLAMP           == 2   \* upper clamp of the extruder dt, in clock units
EXTRUDER_SPIN_DIR  == -1
EMA_NUM            == 1   \* VEL_EMA_ALPHA = EMA_NUM / EMA_DEN
EMA_DEN            == 2
FAN_FULL           == 2   \* fan duty 1.0, in duty levels
MIN_RPS            == 3   \* phase units per clock unit at the lowest duty
BASE_RPS           == 9   \* phase units per clock unit at full duty

(* examples/eyes.py, in clock units of the eye loop; amounts in tenths *)
MIN_BLINK_SEC == 6
MAX_BLINK_SEC == 7
BLINK_TIME    == 2
BLINK_HOLD    == 1
AMT_ONE       == 10  \* blink amount 1.0

None   == "<None>"
NoTime == -1

VARIABLES
  now,                    \* last value read from time.monotonic()
  last_err,               \* main(): signature of the last fault shown, <<>> = None
  gcode_check_counter,    \* main(): dashboard cycles since the last feed poll
  m117_message,           \* _m117_message
  m117_timestamp_mono,    \* _m117_timestamp_mono
  last_seen_gcode_time,   \* _last_seen_gcode_time
  FAN_PHASE,              \* FAN_PHASE, in phase steps
  EXTRUDER_PHASE,         \* EXTRUDER_PHASE[0..1], in phase steps
  EXTRUDER_VEL_EMA,       \* EXTRUDER_VEL_EMA[0..1]
  last_tick_time,         \* _last_tick_time
  tick,                   \* what the last loop iteration saw and pushed
  prev,                   \* mode and signature of the iteration before it
  call,                   \* the last direct call of process_m117_messages
  adv,                    \* the dt the last dashboard cycle integrated with
  last_frame_data,        \* _last_frame_data[0..1], <<>> = None
  redraw,                 \* the last call of needs_redraw
  next_blink,             \* eye_anim_loop(): next_blink
  blink_state,            \* eye_anim_loop(): blink_state (phase, t_start, amt)
  swap,                   \* eye_anim_loop(): swap
  running,                \* eyes.py: running
  pc,                     \* eyes.py: where main() is (while, body, final, done)
  final,                  \* frames pushed by the finally block of main()
  sigint,                 \* SIGINTs so far and the frames begun and ended since
  eye                     \* what the last eye frame followed

vars == <<now, last_err, gcode_check_counter, m117_message, m117_timestamp_mono,
          last_seen_gcode_time, FAN_PHASE, EXTRUDER_PHASE, EXTRUDER_VEL_EMA,
          last_tick_time, tick, prev, call, adv, last_frame_data, redraw,
          next_blink, blink_state, swap, running, pc, final, sigint, eye>>

m117vars  == <<m117_message, m117_timestamp_mono, last_seen_gcode_time>>
phasevars == <<FAN_PHASE, EXTRUDER_PHASE, EXTRUDER_VEL_EMA, last_tick_time>>
redrawvars == <<last_frame_data, redraw>>
exitvars   == <<running, pc, final, sigint>>
eyevars    == <<next_blink, blink_state, swap, eye, exitvars>>
loopvars   == <<last_err, gcode_check_counter, m117vars, phasevars, tick, prev, call, adv>>

Panels == {0, 1}
SCREENS == [i \in Panels |-> IF i = 0 THEN "T0" ELSE "T1"]
Chan(i) == IF i = 0 THEN "LEFT" ELSE "RIGHT"

(* --------------------------- input alphabets --------------------------- *)
Raise == "<raise>"
InfoStates == {"ready", "error", "shutdown"}
WebRaise   == [ok |-> FALSE, state |-> "", message |-> ""]
WebOk(state, message) == [ok |-> TRUE, state |-> state, message |-> message]
WebAnswers == {WebRaise, WebOk("", ""), WebOk("ready", ""), WebOk("error", "mcu lost")}
Causes     == {"Timeout", "KeyError"}
RawCmds    == {"G28", "M117", "M117 hello", "m117 bye"}
Event      == [time : 1..MaxSeq, message : RawCmds]
                \cup {[time |-> NoTime, message |-> "m117 bye"]}

RECURSIVE SeqsUpTo(_, _)
SeqsUpTo(S, n) ==
  IF n = 0 THEN {<<>>}
  ELSE LET shorter == SeqsUpTo(S, n - 1)
       IN shorter \cup {Append(q, e) : q \in {r \in shorter : Len(r) = n - 1}, e \in S}

(* the gcode store is chronological: entry times never go back *)
Chronological(evs) ==
  \A i, j \in 1..Len(evs) :
    (i < j /\ evs[i].time # NoTime /\ evs[j].time # NoTime) => evs[i].time <= evs[j].time

(* ------------------- process_m117_messages (pure part) ----------------- *)
(* msg.upper().startswith("M117") *)
IsM117(raw) == raw \in {"M117", "M117 hello", "m117 bye"}

(* msg.split(" ", 1)[1].strip(), "" when there is no second part *)
DisplayMsg(raw) ==
  CASE raw = "M117 hello" -> "hello"
    [] raw = "m117 bye"   -> "bye"
    [] OTHER              -> ""

ExpiredBackwards(msg, ts, t) == msg # None /\ (ts - t) > M117_CLEAR_TIMEOUT

Expired(msg, ts, t) == msg # None /\ (t - ts) > M117_CLEAR_TIMEOUT

QualifiesNotOlder(ev, seen) == ev.time # NoTime /\ ~(seen # NoTime /\ ev.time < seen)

Qualifies(ev, seen) == ev.time # NoTime /\ ~(seen # NoTime /\ ev.time <= seen)

ApplyM117Refreshing(acc, ev, t) ==
  IF ~IsM117(ev.message) THEN acc
  ELSE LET display_msg == DisplayMsg(ev.message)
       IN IF display_msg = ""
          THEN IF acc.msg # None
               THEN [acc EXCEPT !.msg = None, !.ts = 0, !.changed = TRUE]
               ELSE acc
          ELSE [acc EXCEPT !.msg = display_msg, !.ts = t, !.changed = TRUE]

ApplyM117(acc, ev, t) ==
  IF ~IsM117(ev.message) THEN acc
  ELSE LET display_msg == DisplayMsg(ev.message)
       IN IF display_msg = ""
          THEN IF acc.msg # None
               THEN [acc EXCEPT !.msg = None, !.ts = 0, !.changed = TRUE]
               ELSE acc
          ELSE IF display_msg # acc.msg
               THEN [acc EXCEPT !.msg = display_msg, !.ts = t, !.changed = TRUE]
               ELSE acc

ApplyEventSeenOnChange(acc, ev, seen, t) ==
  IF ~Qualifies(ev, seen) THEN acc
  ELSE LET a == ApplyM117(acc, ev, t)
       IN IF a.msg = acc.msg /\ a.ts = acc.ts THEN a
          ELSE [a EXCEPT !.newest = IF a.newest = NoTime \/ ev.time > a.newest
                                    THEN ev.time ELSE a.newest]

ApplyEvent(acc, ev, seen, t) ==
  IF ~Qualifies(ev, seen) THEN acc
  ELSE LET a == ApplyM117(acc, ev, t)
       IN [a EXCEPT !.newest = IF a.newest = NoTime \/ ev.time > a.newest
                               THEN ev.time ELSE a.newest]

RECURSIVE FoldEventsNewestFirst(_, _, _, _)
FoldEventsNewestFirst(acc, evs, seen, t) ==
  IF evs = <<>> THEN acc
  ELSE FoldEventsNewestFirst(ApplyEvent(acc, evs[Len(evs)], seen, t),
                             SubSeq(evs, 1, Len(evs) - 1), seen, t)

RECURSIVE FoldEvents(_, _, _, _)
FoldEvents(acc, evs, seen, t) ==
  IF evs = <<>> THEN acc
  ELSE FoldEvents(ApplyEvent(acc, Head(evs), seen, t), Tail(evs), seen, t)

(* result of process_m117_messages(evs) called at clock value t *)
ProcessM117(msg, ts, seen, evs, t) ==
  IF Expired(msg, ts, t)
  THEN [msg |-> None, ts |-> ts, seen |-> seen, changed |-> TRUE]
  ELSE LET r == FoldEvents([msg |-> msg, ts |-> ts, newest |-> seen, changed |-> FALSE],
                           evs, seen, t)
       IN [msg |-> r.msg, ts |-> r.ts, changed |-> r.changed,
           seen |-> IF r.newest # NoTime THEN r.newest ELSE seen]

(* ------------------------ MoonrakerClient.klippy_state ------------------ *)
KlippyState(info, web) ==
  IF ~web.ok THEN [state |-> info, message |-> ""]
  ELSE [state |-> IF web.state # "" THEN web.state ELSE info,
        message |-> web.message]

Upper(s) ==
  CASE s = "error"    -> "ERROR"
    [] s = "shutdown" -> "SHUTDOWN"
    [] s = "ready"    -> "READY"
    [] OTHER          -> s

FaultStates == {"error", "shutdown"}
ErrorTitle(kstate) == "KLIPPER " \o Upper(kstate)
ErrorMsgAsReported(kmsg) == kmsg

ErrorMsg(kmsg) == IF kmsg # "" THEN kmsg ELSE "Check printer console for details."
FlashPhase(t) == (t \div ERROR_FLASH_PERIOD) % 2
ErrorBgSteady(phase) == "bright"

ErrorBg(phase) == IF phase = 0 THEN "bright" ELSE "dim"
ExcTitle == "MOONRAKER ERROR"
ExcMsg(cause) == cause \o ": request failed"

(* ------------------------------ frames --------------------------------- *)
ErrorFrame(i, title, msg, bg) ==
  [chan |-> Chan(i), kind |-> "fault", title |-> title, msg |-> msg, bg |-> bg]

(* display_error_all: the same error on both panels, LEFT first *)
DisplayErrorLeftOnly(title, msg, bg) == <<ErrorFrame(0, title, msg, bg)>>

DisplayErrorAll(title, msg, bg) ==
  <<ErrorFrame(0, title, msg, bg), ErrorFrame(1, title, msg, bg)>>

NoCap == "<no cap>"
FallbackLabel == "<filename>"

CapTextAnyAge(active, msg, ts, t) ==
  IF active THEN NoCap
  ELSE IF msg # None THEN msg
  ELSE FallbackLabel

(* the text render_panel puts in the cap area, read at clock value t *)
CapText(active, msg, ts, t) ==
  IF active THEN NoCap
  ELSE IF msg # None /\ (t - ts) < M117_CLEAR_TIMEOUT THEN msg
  ELSE FallbackLabel

PanelFrame(i, active, msg, ts, t) ==
  [chan |-> Chan(i), kind |-> "panel", title |-> SCREENS[i],
   msg |-> CapText(active, msg, ts, t),
   bg |-> IF active THEN "active" ELSE "standby"]

(* ---------------------------- phase integrators ------------------------ *)
clamp(v, lo, hi) == IF v < lo THEN lo ELSE IF v > hi THEN hi ELSE v

FanRps(duty) ==
  IF duty > 0
  THEN MIN_RPS + ((BASE_RPS - MIN_RPS) * clamp(duty, 0, FAN_FULL)) \div FAN_FULL
  ELSE 0

(* the nearest representable value *)
Round(x) ==
  IF -GRID < x /\ x < GRID THEN x
  ELSE LET q == x \div GRID
           r == x % GRID
       IN IF 2 * r < GRID THEN q * GRID ELSE (q + 1) * GRID

FAdd(a, b) == Round(a + b)
FMul(a, b) == Round(a * b)

(* C fmod: exact, with the sign of x *)
Fmod(x, y) == IF x >= 0 THEN x % y ELSE -((-x) % y)

(* Python's float x % y for y > 0: fmod, then y is added to a negative     *)
(* remainder, and that sum is rounded like every float sum                 *)
PyMod(x, y) ==
  LET r == Fmod(x, y)
  IN IF r < 0 THEN FAdd(r, y) ELSE r

FanAdvance(phase, duty) == PyMod(FAdd(phase, FMul(FanRps(duty), PERIOD)), TURN)

ExtruderDtUnclamped(t) ==
  IF last_tick_time = NoTime THEN PERIOD ELSE t - last_tick_time

ExtruderDt(t) ==
  IF last_tick_time = NoTime THEN PERIOD
  ELSE clamp(t - last_tick_time, 0, DT_CLAMP)

EmaSwapped(ema, raw, num, den) == (num * ema + (den - num) * raw) \div den

(* (1 - alpha) * ema + alpha * raw with alpha = num / den *)
Ema(ema, raw, num, den) == ((den - num) * ema + num * raw) \div den

EmaStep(ema, raw) == Ema(ema, raw, EMA_NUM, EMA_DEN)

(* omega, in phase units per clock unit *)
Omega(e_vel_s) == EXTRUDER_SPIN_DIR * ((TURN * e_vel_s) \div MM_PER_REV)

ExtruderAdvance(phase, e_vel_s, dt) == PyMod(FAdd(phase, FMul(Omega(e_vel_s), dt)), TURN)

(* ------------------------------ needs_redraw --------------------------- *)
(* int(extruder_phase * 100), the phase being phase * 2*pi / TURN radians *)
PhaseCenti(phase) == (phase * 628) \div TURN

(* current_state of needs_redraw, over the fields the model carries *)
Fingerprint(duty, e_vel, msg, ts, active, phase) ==
  <<duty, e_vel, msg, ts, active, PhaseCenti(phase)>>

NoFingerprint == [i \in Panels |-> <<>>]

StoresAlways(stored, current_state) == TRUE

(* "_last_frame_data[panel_index] != current_state", <<>> being None *)
Differs(stored, current_state) == stored # current_state

(* in how many fields the stored tuple differs, -1 when nothing is stored *)
DiffCount(stored, current_state) ==
  IF stored = <<>> THEN -1
  ELSE Cardinality({k \in 1..Len(current_state) : stored[k] # current_state[k]})

(* -------------------------------- Init --------------------------------- *)
NoPrev == [mode |-> "NONE", title |-> "", msg |-> "", flash |-> 0, before |-> <<>>]
PrevOf(tk) == [mode |-> tk.mode, title |-> tk.title, msg |-> tk.msg,
               flash |-> (tk.at \div ERROR_FLASH_PERIOD) % 2, before |-> <<>>]

InitTick == [mode |-> "INIT", at |-> 0, info |-> "", web |-> WebRaise, cause |-> "",
             polled |-> FALSE, changed |-> FALSE, active |-> 0,
             title |-> "INIT", msg |-> "Waiting for Moonraker...",
             pushes |-> DisplayErrorAll("INIT", "Waiting for Moonraker...", "default"),
             fp |-> NoFingerprint]

InitCall == [evs |-> <<>>, at |-> 0, changed |-> FALSE, done |-> FALSE,
             pre |-> [msg |-> None, ts |-> 0, seen |-> NoTime]]

NoAdv    == [dt |-> 0, gap |-> NoTime, raw |-> 0, num |-> EMA_NUM, from |-> 0, n |-> 0]
NoRedraw == [panel |-> 0, state |-> <<>>, diff |-> -1, ret |-> FALSE, done |-> FALSE]
IdleBlink == [phase |-> "idle", t_start |-> 0, amt |-> 0]
NoEye    == [was |-> "none", amt0 |-> 0, trig |-> NoTime, due |-> 0, pushed |-> <<>>]

(* the globals of the parts a specification does not run *)
RedrawIdle == last_frame_data = NoFingerprint /\ redraw = NoRedraw
NoSig      == [count |-> 0, begun |-> 0, ended |-> 0]
ExitIdle   == running = TRUE /\ pc = "while" /\ final = <<>> /\ sigint = NoSig
EyesIdle   == /\ next_blink = 0 /\ blink_state = IdleBlink /\ swap = FALSE /\ eye = NoEye
              /\ ExitIdle

Init ==
  /\ now = 0
  /\ last_err = <<>>
  /\ gcode_check_counter = 0
  /\ m117_message = None
  /\ m117_timestamp_mono = 0
  /\ last_seen_gcode_time = NoTime
  /\ FAN_PHASE = 0
  /\ EXTRUDER_PHASE = [i \in Panels |-> 0]
  /\ EXTRUDER_VEL_EMA = [i \in Panels |-> 0]
  /\ last_tick_time = NoTime
  /\ tick = InitTick
  /\ prev = NoPrev
  /\ call = InitCall
  /\ adv = NoAdv
  /\ RedrawIdle
  /\ EyesIdle

(* --------------------------- loop iterations --------------------------- *)
Steps      == 0..MaxStep
RenderLags == 0..1
FanDuties  == {0}
Velocities == {0}

(* "except Exception": the classes the handler of main() catches *)
ExceptionClasses == {"Timeout", "KeyError", "ValueError"}
CaughtTimeoutOnly(cause) == cause = "Timeout"

Caught(cause) == cause \in ExceptionClasses

(* the loop runs until an exception leaves main() *)
Running == tick.mode # "EXIT"

ErrorSigNoPhase(title, msg, phase) == <<title, msg>>
KeptErr(err) == err

(* "last_err = None  # clear error" at the end of a dashboard cycle *)
ClearedErr(err) == <<>>

ErrorSig(title, msg, phase) == <<title, msg, phase>>
ExcSig(title, msg) == <<title, msg>>

ErrorBranchRestartsClock ==
  /\ last_tick_time' = NoTime
  /\ UNCHANGED <<gcode_check_counter, m117vars, FAN_PHASE, EXTRUDER_PHASE,
                 EXTRUDER_VEL_EMA, call>>

(* what the fault branch of main() assigns nothing to *)
ErrorBranchKeeps == UNCHANGED <<gcode_check_counter, m117vars, phasevars, call>>

(* the fault branch of main(): klippy_state() answers error or shutdown *)
IterKlippyFault(d, info, web) ==
  LET t     == now + d
      ks    == KlippyState(info, web)
      title == ErrorTitle(ks.state)
      msg   == ErrorMsg(ks.message)
      phase == FlashPhase(t)
      sig   == ErrorSig(title, msg, phase)
      show  == sig # last_err
  IN /\ Running
     /\ t <= MaxTime
     /\ ks.state \in FaultStates
     /\ now' = t
     /\ last_err' = IF show THEN sig ELSE last_err
     /\ tick' = [mode |-> "ERROR", at |-> t, info |-> info, web |-> web, cause |-> "",
                 polled |-> FALSE, changed |-> FALSE, active |-> 0,
                 title |-> title, msg |-> msg,
                 pushes |-> IF show THEN DisplayErrorAll(title, msg, ErrorBg(phase))
                            ELSE <<>>,
                 fp |-> NoFingerprint]
     /\ ErrorBranchKeeps

(* the except branch of main(), shared by every exception of the try body; *)
(* an exception the handler does not catch ends the loop                   *)
ShowException(cause) ==
  LET sig  == ExcSig(ExcTitle, ExcMsg(cause))
      show == sig # last_err
  IN IF Caught(cause)
     THEN [mode     |-> "DEGRADED",
           last_err |-> IF show THEN sig ELSE last_err,
           pushes   |-> IF show THEN DisplayErrorAll(ExcTitle, ExcMsg(cause), "default")
                        ELSE <<>>]
     ELSE [mode |-> "EXIT", last_err |-> last_err, pushes |-> <<>>]

(* the GET of /printer/info raises: nothing of the try body has run *)
IterInfoFailed(d, cause) ==
  LET t == now + d
      x == ShowException(cause)
  IN /\ Running
     /\ t <= MaxTime
     /\ now' = t
     /\ last_err' = x.last_err
     /\ tick' = [mode |-> x.mode, at |-> t, info |-> Raise, web |-> WebRaise,
                 cause |-> cause, polled |-> FALSE, changed |-> FALSE, active |-> 0,
                 title |-> ExcTitle, msg |-> ExcMsg(cause), pushes |-> x.pushes,
                 fp |-> NoFingerprint]
     /\ UNCHANGED <<gcode_check_counter, m117vars, phasevars, call>>

(* lines 927-941: the counter and, on every 5th dashboard cycle, the feed *)
PollDue == gcode_check_counter + 1 >= GCODE_CHECK_EVERY

FeedStep(evs, t) ==
  IF PollDue
  THEN LET r == ProcessM117(m117_message, m117_timestamp_mono, last_seen_gcode_time, evs, t)
       IN [counter |-> 0, msg |-> r.msg, ts |-> r.ts, seen |-> r.seen,
           changed |-> r.changed]
  ELSE [counter |-> gcode_check_counter + 1, msg |-> m117_message,
        ts |-> m117_timestamp_mono, seen |-> last_seen_gcode_time, changed |-> FALSE]

(* a dashboard cycle whose query_tool() raises, after the feed step *)
IterQueryFailed(d, info, web, evs, cause) ==
  LET t  == now + d
      ks == KlippyState(info, web)
      f  == FeedStep(evs, t)
      x  == ShowException(cause)
  IN /\ Running
     /\ t <= MaxTime
     /\ ks.state \notin FaultStates
     /\ now' = t
     /\ gcode_check_counter' = f.counter
     /\ m117_message' = f.msg
     /\ m117_timestamp_mono' = f.ts
     /\ last_seen_gcode_time' = f.seen
     /\ last_err' = x.last_err
     /\ tick' = [mode |-> x.mode, at |-> t, info |-> info, web |-> web,
                 cause |-> cause, polled |-> PollDue, changed |-> f.changed, active |-> 0,
                 title |-> ExcTitle, msg |-> ExcMsg(cause), pushes |-> x.pushes,
                 fp |-> NoFingerprint]
     /\ UNCHANGED <<phasevars, call>>

(* a complete dashboard cycle: feed, queries, integrators, both panels *)
IterDashboard(d, lag, info, web, evs, active, duty, vel) ==
  LET t   == now + d
      ks  == KlippyState(info, web)
      f   == FeedStep(evs, t)
      dt  == ExtruderDt(t)
      ema == [i \in Panels |-> EmaStep(EXTRUDER_VEL_EMA[i], vel[i])]
      ph  == [i \in Panels |-> ExtruderAdvance(EXTRUDER_PHASE[i], ema[i], dt)]
  IN /\ Running
     /\ t + lag <= MaxTime
     /\ ks.state \notin FaultStates
     /\ now' = t + lag
     /\ gcode_check_counter' = f.counter
     /\ m117_message' = f.msg
     /\ m117_timestamp_mono' = f.ts
     /\ last_seen_gcode_time' = f.seen
     /\ FAN_PHASE' = FanAdvance(FAN_PHASE, duty)
     /\ last_tick_time' = t
     /\ EXTRUDER_VEL_EMA' = ema
     /\ EXTRUDER_PHASE' = ph
     /\ last_err' = ClearedErr(last_err)
     /\ tick' = [mode |-> "NORMAL", at |-> t, info |-> info, web |-> web, cause |-> "",
                 polled |-> PollDue, changed |-> f.changed, active |-> active,
                 title |-> "", msg |-> "",
                 pushes |-> <<PanelFrame(0, active = 0, f.msg, f.ts, t + lag),
                              PanelFrame(1, active = 1, f.msg, f.ts, t + lag)>>,
                 fp |-> [i \in Panels |->
                           Fingerprint(duty, vel[i], f.msg, f.ts, active = i, ph[i])]]
     /\ UNCHANGED call

(* the iteration before the one that is being recorded *)
Remember ==
  /\ prev' = [PrevOf(tick) EXCEPT
               !.before = IF tick.mode = "NORMAL" /\ prev.mode \in {"ERROR", "DEGRADED"}
                          THEN <<prev.mode, prev.title, prev.msg, prev.flash>>
                          ELSE <<>>]
  /\ UNCHANGED <<adv, redrawvars, eyevars>>

(* the loop with every answer of klippy_state() and a silent feed *)
KlippyFault == \E d \in Steps, info \in InfoStates, web \in WebAnswers :
                 IterKlippyFault(d, info, web) /\ Remember
InfoFailed  == \E d \in Steps, cause \in Causes : IterInfoFailed(d, cause) /\ Remember
QueryFailed == \E d \in Steps, info \in InfoStates, web \in WebAnswers, cause \in Causes :
                 IterQueryFailed(d, info, web, <<>>, cause) /\ Remember
Dashboard   == \E d \in Steps, info \in InfoStates, web \in WebAnswers, active \in Panels,
                  duty \in FanDuties, vel \in [Panels -> Velocities] :
                 IterDashboard(d, 0, info, web, <<>>, active, duty, vel) /\ Remember

Next == KlippyFault \/ InfoFailed \/ QueryFailed \/ Dashboard

Spec == Init /\ [][Next]_vars

(* the loop with every answer of the gcode store and one kind of each fault *)
FeedInfos  == {"ready", "error"}
FeedWebs   == {WebRaise}
FeedCauses == {"Timeout"}
FeedCmds   == {"M117", "M117 hello", "m117 bye"}
FeedEvent  == [time : 1..MaxSeq, message : FeedCmds]
(* inside the loop the store entries carry distinct, increasing times *)
Increasing(evs) == \A i, j \in 1..Len(evs) : i < j => evs[i].time < evs[j].time
FeedLists  == {evs \in SeqsUpTo(FeedEvent, MaxFeed) : Increasing(evs)}
FeedOf(S)  == IF PollDue THEN S ELSE {<<>>}
Forget     == UNCHANGED <<prev, adv, redrawvars, eyevars>>

FeedKlippyFault == \E d \in Steps, info \in FeedInfos, web \in FeedWebs :
                     IterKlippyFault(d, info, web) /\ Forget
FeedInfoFailed  == \E d \in Steps, cause \in FeedCauses :
                     IterInfoFailed(d, cause) /\ Forget
FeedQueryFailed == \E d \in Steps, info \in FeedInfos, web \in FeedWebs,
                      evs \in FeedOf(FeedLists), cause \in FeedCauses :
                     IterQueryFailed(d, info, web, evs, cause) /\ Forget
FeedDashboard   == \E d \in Steps, lag \in RenderLags, info \in FeedInfos, web \in FeedWebs,
                      evs \in FeedOf(FeedLists), active \in Panels,
                      duty \in FanDuties, vel \in [Panels -> Velocities] :
                     IterDashboard(d, lag, info, web, evs, active, duty, vel) /\ Forget

FeedNext == FeedKlippyFault \/ FeedInfoFailed \/ FeedQueryFailed \/ FeedDashboard

SpecFeed == Init /\ [][FeedNext]_vars

(* process_m117_messages called once, from every state the loop can leave *)
(* the message in and with every gcode store answer                        *)
EventLists == {evs \in SeqsUpTo(Event, MaxEvents) : Chronological(evs)}
Texts      == {DisplayMsg(raw) : raw \in RawCmds} \ {""}

InitM117 ==
  /\ last_err = <<>>
  /\ gcode_check_counter = GCODE_CHECK_EVERY - 1
  /\ m117_message \in {None} \cup Texts
  /\ m117_timestamp_mono \in 0..1
  /\ now \in {m117_timestamp_mono + a : a \in 0..MaxAge}
  /\ last_seen_gcode_time \in {NoTime} \cup (1..MaxSeq)
  /\ last_seen_gcode_time = NoTime => (m117_message = None /\ m117_timestamp_mono = 0)
  /\ FAN_PHASE = 0
  /\ EXTRUDER_PHASE = [i \in Panels |-> 0]
  /\ EXTRUDER_VEL_EMA = [i \in Panels |-> 0]
  /\ last_tick_time = NoTime
  /\ tick = InitTick
  /\ prev = NoPrev
  /\ call = [InitCall EXCEPT !.at = now,
                             !.pre = [msg |-> m117_message, ts |-> m117_timestamp_mono,
                                      seen |-> last_seen_gcode_time]]
  /\ adv = NoAdv
  /\ RedrawIdle
  /\ EyesIdle

M117Call(evs) ==
  LET r == ProcessM117(m117_message, m117_timestamp_mono, last_seen_gcode_time, evs, now)
  IN /\ ~call.done
     /\ m117_message' = r.msg
     /\ m117_timestamp_mono' = r.ts
     /\ last_seen_gcode_time' = r.seen
     /\ call' = [call EXCEPT !.evs = evs, !.changed = r.changed, !.done = TRUE]
     /\ UNCHANGED <<now, last_err, gcode_check_counter, phasevars, tick, prev, adv,
                    redrawvars, eyevars>>

M117Next == \E evs \in EventLists : M117Call(evs)

SpecM117 == InitM117 /\ [][M117Next]_vars

(* the loop with moving fan and extruder, and device faults between the    *)
(* dashboard cycles                                                        *)
PhaseDuties == {0, 1}
PhaseVels   == {-3, 0, 1, 3}
PhaseRest   == UNCHANGED <<prev, redrawvars, eyevars>>

Integrated(d) ==
  adv' = [adv EXCEPT !.dt  = ExtruderDt(now + d),
                     !.gap = IF last_tick_time = NoTime THEN NoTime
                             ELSE now + d - last_tick_time]

PhaseKlippyFault == \E d \in Steps :
                      IterKlippyFault(d, "error", WebRaise) /\ UNCHANGED adv /\ PhaseRest
PhaseDashboard   == \E d \in Steps, duty \in PhaseDuties, v \in PhaseVels :
                      IterDashboard(d, 0, "ready", WebRaise, <<>>, 0, duty,
                                    [i \in Panels |-> v])
                      /\ Integrated(d) /\ PhaseRest

PhaseNext == PhaseKlippyFault \/ PhaseDashboard

SpecPhase == Init /\ [][PhaseNext]_vars

(* the loop with a turning fan, a moving extruder and an M117 message in   *)
(* the gcode store, and device faults between the dashboard cycles         *)
FaultVels  == {0, 3}
FaultFeed  == {<<>>, <<[time |-> 1, message |-> "M117 hello"]>>}
FaultWebs  == {WebOk("error", "mcu lost")}

ErrorTick     == \E d \in Steps, info \in {"error"}, web \in FaultWebs :
                   IterKlippyFault(d, info, web) /\ UNCHANGED adv /\ PhaseRest
DashboardTick == \E d \in Steps, v \in FaultVels, evs \in FeedOf(FaultFeed) :
                   IterDashboard(d, 0, "ready", WebRaise, evs, 0, 1, [i \in Panels |-> v])
                   /\ Integrated(d) /\ PhaseRest

FaultNext == ErrorTick \/ DashboardTick

SpecFault == Init /\ [][FaultNext]_vars

(* lines 971-981 on their own: the extruder integrator advanced again and  *)
(* again with one raw velocity and one dt, for the program's alpha and for *)
(* alpha = 1                                                               *)
EmaRates    == {-6, -3, 0, 1, 3}
Alphas      == {EMA_NUM, EMA_DEN}
StartPhases == {0, 3}

InitEma ==
  /\ now = 0
  /\ last_err = <<>>
  /\ gcode_check_counter = 0
  /\ m117_message = None
  /\ m117_timestamp_mono = 0
  /\ last_seen_gcode_time = NoTime
  /\ FAN_PHASE = 0
  /\ adv \in {[NoAdv EXCEPT !.dt = dt, !.raw = raw, !.num = num, !.from = from] :
                dt \in 0..DT_CLAMP, raw \in EmaRates, num \in Alphas, from \in StartPhases}
  /\ EXTRUDER_PHASE = [i \in Panels |-> adv.from]
  /\ EXTRUDER_VEL_EMA = [i \in Panels |-> 0]
  /\ last_tick_time = NoTime
  /\ tick = InitTick
  /\ prev = NoPrev
  /\ call = InitCall
  /\ RedrawIdle
  /\ EyesIdle

EmaAdvance ==
  LET ema == [i \in Panels |-> Ema(EXTRUDER_VEL_EMA[i], adv.raw, adv.num, EMA_DEN)]
  IN /\ adv.n < MaxAdvances
     /\ EXTRUDER_VEL_EMA' = ema
     /\ EXTRUDER_PHASE' = [i \in Panels |-> ExtruderAdvance(EXTRUDER_PHASE[i], ema[i], adv.dt)]
     /\ adv' = [adv EXCEPT !.n = @ + 1]
     /\ UNCHANGED <<now, last_err, gcode_check_counter, m117vars, FAN_PHASE, last_tick_time,
                    tick, prev, call, redrawvars, eyevars>>

EmaNext == EmaAdvance

SpecEma == InitEma /\ [][EmaNext]_vars

(* needs_redraw called on its own, with every fingerprint, in any order *)
RedrawDuties == {0, 1}
RedrawVels   == {0, 1}
RedrawMsgs   == {<<None, 0>>, <<"hello", 0>>, <<"hello", 1>>}
RedrawPhases == {0, 1}
Fingerprints ==
  {Fingerprint(duty, e_vel, m[1], m[2], active, phase) :
     duty \in RedrawDuties, e_vel \in RedrawVels, m \in RedrawMsgs,
     active \in BOOLEAN, phase \in RedrawPhases}

NeedsRedraw(i, current_state) ==
  LET ret == Differs(last_frame_data[i], current_state)
  IN /\ last_frame_data' = IF ret THEN [last_frame_data EXCEPT ![i] = current_state]
                           ELSE last_frame_data
     /\ redraw' = [panel |-> i, state |-> current_state,
                   diff |-> DiffCount(last_frame_data[i], current_state),
                   ret |-> ret, done |-> TRUE]
     /\ UNCHANGED <<now, loopvars, eyevars>>

RedrawNext == \E i \in Panels, current_state \in Fingerprints : NeedsRedraw(i, current_state)

SpecRedraw == Init /\ [][RedrawNext]_vars

(* ------------------------- examples/eyes.py ---------------------------- *)
Min(a, b) == IF a < b THEN a ELSE b

OpeningProgRising(elapsed) == Min(AMT_ONE, (elapsed * AMT_ONE) \div BLINK_TIME)

(* min(1.0, (now - t_start) / BLINK_TIME) *)
ClosingProg(elapsed) == Min(AMT_ONE, (elapsed * AMT_ONE) \div BLINK_TIME)

(* 1.0 - min(1.0, (now - t_start) / BLINK_TIME) *)
OpeningProg(elapsed) == AMT_ONE - Min(AMT_ONE, (elapsed * AMT_ONE) \div BLINK_TIME)

HoldOverLate(elapsed) == elapsed > BLINK_HOLD

(* now - t_start >= BLINK_HOLD *)
HoldOver(elapsed) == elapsed >= BLINK_HOLD

NextBlinkAtOnce(t, u) == t

(* now + random.uniform(MIN_BLINK_SEC, MAX_BLINK_SEC), u being the draw *)
NextBlink(t, u) == t + u

(* update_blink(now, next_blink, state), with the draw it would use *)
UpdateBlink(t, nb, state, u) ==
  CASE state.phase = "idle" ->
         IF t >= nb
         THEN [state |-> [phase |-> "closing", t_start |-> t, amt |-> 0],
               next_blink |-> NextBlink(t, u)]
         ELSE [state |-> state, next_blink |-> nb]
    [] state.phase = "closing" ->
         LET prog == ClosingProg(t - state.t_start)
         IN IF prog >= AMT_ONE
            THEN [state |-> [phase |-> "closed", t_start |-> t, amt |-> AMT_ONE],
                  next_blink |-> nb]
            ELSE [state |-> [phase |-> "closing", t_start |-> state.t_start, amt |-> prog],
                  next_blink |-> nb]
    [] state.phase = "closed" ->
         IF HoldOver(t - state.t_start)
         THEN [state |-> [phase |-> "opening", t_start |-> t, amt |-> AMT_ONE],
               next_blink |-> nb]
         ELSE [state |-> state, next_blink |-> nb]
    [] state.phase = "opening" ->
         LET prog == OpeningProg(t - state.t_start)
         IN IF prog <= 0
            THEN [state |-> IdleBlink, next_blink |-> nb]
            ELSE [state |-> [phase |-> "opening", t_start |-> state.t_start, amt |-> prog],
                  next_blink |-> nb]
    [] OTHER -> [state |-> state, next_blink |-> nb]

Uniform == MIN_BLINK_SEC..MAX_BLINK_SEC
EyeSteps == 1..MaxEyeStep

(* eye_anim_loop() up to its first frame: the first blink is scheduled *)
InitBlink ==
  /\ now = 0
  /\ last_err = <<>>
  /\ gcode_check_counter = 0
  /\ m117_message = None
  /\ m117_timestamp_mono = 0
  /\ last_seen_gcode_time = NoTime
  /\ FAN_PHASE = 0
  /\ EXTRUDER_PHASE = [i \in Panels |-> 0]
  /\ EXTRUDER_VEL_EMA = [i \in Panels |-> 0]
  /\ last_tick_time = NoTime
  /\ tick = InitTick
  /\ prev = NoPrev
  /\ call = InitCall
  /\ adv = NoAdv
  /\ RedrawIdle
  /\ next_blink \in {NextBlink(now, u) : u \in Uniform}
  /\ blink_state = IdleBlink
  /\ swap = FALSE
  /\ eye = NoEye
  /\ ExitIdle

(* one frame of the while loop: clock, blink, both eyes pushed, swap *)
EyeFrame(d, u) ==
  LET t == now + d
      r == UpdateBlink(t, next_blink, blink_state, u)
  IN /\ t <= MaxEyeTime
     /\ now' = t
     /\ blink_state' = r.state
     /\ next_blink' = r.next_blink
     /\ swap' = ~swap
     /\ eye' = [was |-> blink_state.phase, amt0 |-> blink_state.amt,
                trig |-> IF blink_state.phase = "idle" /\ r.state.phase = "closing"
                         THEN t ELSE eye.trig,
                due |-> next_blink,
                pushed |-> IF swap
                           THEN <<[chan |-> "RIGHT", amt |-> r.state.amt],
                                  [chan |-> "LEFT", amt |-> r.state.amt]>>
                           ELSE <<[chan |-> "LEFT", amt |-> r.state.amt],
                                  [chan |-> "RIGHT", amt |-> r.state.amt]>>]
     /\ UNCHANGED <<loopvars, redrawvars>>

(* the draw matters only on the frame that starts a blink *)
DrawsAt(t) == IF blink_state.phase = "idle" /\ t >= next_blink THEN Uniform
              ELSE {MIN_BLINK_SEC}

BlinkNext == \E d \in EyeSteps : \E u \in DrawsAt(now + d) :
               EyeFrame(d, u) /\ UNCHANGED exitvars

SpecBlink == InitBlink /\ [][BlinkNext]_vars

(* eyes.py with its SIGINT handler and the finally block of main() *)
SigintIgnored(r) == r

(* _sigint: running = False *)
SigintHandler(r) == FALSE

FinalAmts == <<0, 4, 8, 10, 6, 2, 0>>
FinalSeq  == FinalAmts \o <<0>>

(* one frame of the finally block: LEFT, then RIGHT *)
FinalFrame(amt) == <<[chan |-> "LEFT", amt |-> amt], [chan |-> "RIGHT", amt |-> amt]>>

Sigint ==
  /\ pc # "done"
  /\ sigint.count < MaxSignals
  /\ running' = SigintHandler(running)
  /\ sigint' = [sigint EXCEPT !.count = @ + 1]
  /\ UNCHANGED <<now, loopvars, redrawvars, next_blink, blink_state, swap, eye, pc, final>>

(* "while running": a frame begins, or the loop ends and finally begins *)
ExitCheck ==
  /\ pc = "while"
  /\ running => now < MaxEyeTime
  /\ pc' = IF running THEN "body" ELSE "final"
  /\ sigint' = IF running /\ sigint.count > 0 THEN [sigint EXCEPT !.begun = @ + 1] ELSE sigint
  /\ UNCHANGED <<now, loopvars, redrawvars, next_blink, blink_state, swap, eye, running, final>>

ExitBody ==
  /\ pc = "body"
  /\ \E d \in EyeSteps : \E u \in DrawsAt(now + d) : EyeFrame(d, u)
  /\ pc' = "while"
  /\ sigint' = IF sigint.count > 0 THEN [sigint EXCEPT !.ended = @ + 1] ELSE sigint
  /\ UNCHANGED <<running, final>>

FinalStep ==
  /\ pc = "final"
  /\ LET k == Len(final) \div 2 + 1
     IN /\ final' = final \o FinalFrame(FinalSeq[k])
        /\ pc' = IF k = Len(FinalSeq) THEN "done" ELSE "final"
  /\ UNCHANGED <<now, loopvars, redrawvars, next_blink, blink_state, swap, eye, running, sigint>>

Program  == ExitCheck \/ ExitBody \/ FinalStep
ExitNext == Sigint \/ ExitCheck \/ ExitBody \/ FinalStep

SpecExit == InitBlink /\ [][ExitNext]_vars /\ WF_vars(Program)

(* ======================= properties of the loop ======================== *)
FlashIndex(t) == (t \div ERROR_FLASH_PERIOD) % 2
Generic == "Check printer console for details."
Ran == tick.mode \in {"NORMAL", "DEGRADED", "ERROR"}
PushedTo(tk, c) == \E k \in 1..Len(tk.pushes) : tk.pushes[k].chan = c
Age(t) == t - m117_timestamp_mono
TickSig(tk) == <<tk.mode, tk.title, tk.msg, FlashIndex(tk.at)>>
PrevSig == <<prev.mode, prev.title, prev.msg, prev.flash>>
SameFault == prev.mode = tick.mode /\ prev.title = tick.title
             /\ prev.msg = tick.msg
FlashBg(t) == IF FlashIndex(t) = 0 THEN "bright" ELSE "dim"
AllBg(tk, bg) == \A k \in 1..Len(tk.pushes) : tk.pushes[k].bg = bg

(* C1: in a NORMAL tick that follows a NORMAL tick, a channel whose        *)
(* fingerprint equals the one of the previous tick gets no render and no   *)
(* push.                                                                   *)
C1_PushOnlyOnFingerprintChange ==
  [][(tick.mode = "NORMAL" /\ tick'.mode = "NORMAL")
       => \A i \in Panels : tick'.fp[i] = tick.fp[i] => ~PushedTo(tick', Chan(i))]_vars

(* C2: of two consecutive ticks on which the device reports a fault, the   *)
(* second pushes a fault frame exactly when its signature (mode, title,    *)
(* message, flash phase index) differs from the signature of the first.    *)
C2_FaultPushIffSignatureChanged ==
  (tick.mode = "ERROR" /\ prev.mode = "ERROR")
    => ((tick.pushes # <<>>) <=> (TickSig(tick) # PrevSig))

C2_FlashTogglePushed ==
  /\ tick.mode = "ERROR" /\ SameFault
  /\ FlashIndex(tick.at) # prev.flash
  /\ Len(tick.pushes) = 2

(* C3 as stated: in DEGRADED and in ERROR mode alike the flash phase index *)
(* selects the bright or dim background of every fault frame and a fault   *)
(* with unchanged title and message is pushed again when the index flips.  *)
C3_FlashInEveryFaultMode ==
  tick.mode \in {"DEGRADED", "ERROR"}
    => /\ AllBg(tick, FlashBg(tick.at))
       /\ (SameFault /\ FlashIndex(tick.at) # prev.flash) => tick.pushes # <<>>

(* C3 amended: only ERROR mode flashes; a DEGRADED frame always has the    *)
(* fixed default background, its signature is (title, message) and an      *)
(* unchanged DEGRADED fault is not pushed again, flash boundary or not.    *)
C3_FlashOnlyInErrorMode ==
  /\ tick.mode = "ERROR"
       => /\ AllBg(tick, FlashBg(tick.at))
          /\ (SameFault /\ FlashIndex(tick.at) # prev.flash)
               => tick.pushes # <<>>
  /\ tick.mode = "DEGRADED"
       => /\ AllBg(tick, "default")
          /\ SameFault => tick.pushes = <<>>
          /\ ~SameFault => Len(tick.pushes) = 2

C3_DegradedAcrossToggle ==
  /\ tick.mode = "DEGRADED" /\ SameFault
  /\ FlashIndex(tick.at) # prev.flash
  /\ tick.pushes = <<>>

(* C4 as stated: after the decision pass of every tick there is no stored  *)
(* message whose age exceeds the timeout.                                  *)
C4_NoStaleMessageAfterAnyTick ==
  ~(m117_message # None /\ Age(tick.at) > M117_CLEAR_TIMEOUT)

(* C4 amended: the expiry check runs only on a tick that polls the event   *)
(* feed; after the decision pass of such a tick there is no stored message *)
(* whose age exceeds the timeout.                                          *)
C4_NoStaleMessageAfterPoll ==
  tick.polled => ~(m117_message # None /\ Age(tick.at) > M117_CLEAR_TIMEOUT)

C4_ExpiredAtPoll ==
  /\ tick.polled /\ tick.changed
  /\ m117_message = None /\ m117_timestamp_mono > 0
  /\ Age(tick.at) > M117_CLEAR_TIMEOUT

(* C8: while no event replaces or clears a message first seen at t0, the   *)
(* cap text chosen for the standby panel of a dashboard tick is the        *)
(* message when the clock read by the render is below t0 + T and the       *)
(* fallback label when it is above t0 + T.                                 *)
StandbyCap(tk) == tk.pushes[(1 - tk.active) + 1].msg

C8_MessageShownUntilTimeout ==
  [][tick'.mode = "NORMAL"
       => /\ m117_message' # None
               => /\ now' < m117_timestamp_mono' + M117_CLEAR_TIMEOUT
                       => StandbyCap(tick') = m117_message'
                  /\ now' > m117_timestamp_mono' + M117_CLEAR_TIMEOUT
                       => StandbyCap(tick') = FallbackLabel
          /\ ( /\ m117_message # None /\ m117_message' = None
               /\ m117_timestamp_mono' = m117_timestamp_mono
               /\ tick'.at - m117_timestamp_mono > M117_CLEAR_TIMEOUT )
               => StandbyCap(tick') = FallbackLabel]_vars

C8_StaleMessageNotShown ==
  /\ tick.mode = "NORMAL" /\ ~tick.polled
  /\ m117_message # None /\ now > m117_timestamp_mono + M117_CLEAR_TIMEOUT
  /\ StandbyCap(tick) = FallbackLabel

(* C9 as stated: the tick is DEGRADED exactly when one of its status       *)
(* fetches (/printer/info, the webhooks query, a tool query) fails, and    *)
(* ERROR exactly when all of them succeed and the state is error or        *)
(* shutdown.                                                               *)
ResultState(tk) == IF tk.web.ok /\ tk.web.state # "" THEN tk.web.state ELSE tk.info
Reason(tk) == IF tk.web.ok /\ tk.web.message # "" THEN tk.web.message ELSE Generic
AnyFetchFailed(tk) == tk.info = Raise \/ ~tk.web.ok \/ tk.cause # ""
Escaped(tk) == tk.info = Raise \/ tk.cause # ""
ShowsDegraded(tk) ==
  /\ Len(last_err) = 2 /\ last_err[1] = "MOONRAKER ERROR"
  /\ last_err[2] = tk.cause \o ": request failed"
ShowsError(tk) ==
  /\ Len(last_err) = 3 /\ last_err[1] = "KLIPPER " \o Upper(ResultState(tk))
  /\ last_err[2] = Reason(tk)

C10_InfoStateAuthoritative ==
  tick.info \in FaultStates => tick.mode # "NORMAL"

(* C11: a tick whose poll succeeds with a state that is no fault is a      *)
(* NORMAL tick whatever came before: the stored fault signature is cleared *)
(* and both channels get their panel frame on that tick; a fault on the    *)
(* tick after a NORMAL tick is pushed to both channels, also when its      *)
(* signature equals the one of the fault before the recovery.              *)
IsPanelPair(tk) ==
  /\ Len(tk.pushes) = 2
  /\ \A i \in Panels : tk.pushes[i + 1].kind = "panel" /\ tk.pushes[i + 1].chan = Chan(i)

IsFaultPair(tk) ==
  /\ Len(tk.pushes) = 2
  /\ \A i \in Panels : /\ tk.pushes[i + 1].kind = "fault"
                       /\ tk.pushes[i + 1].chan = Chan(i)
                       /\ tk.pushes[i + 1].title = tk.title
                       /\ tk.pushes[i + 1].msg = tk.msg

C11_RecoveryOnFirstCleanTick ==
  /\ (Ran /\ ~Escaped(tick) /\ ResultState(tick) \notin FaultStates)
       => (tick.mode = "NORMAL" /\ last_err = <<>> /\ IsPanelPair(tick))
  /\ (tick.mode \in {"ERROR", "DEGRADED"} /\ prev.mode = "NORMAL") => IsFaultPair(tick)

C11_SameFaultAfterRecovery ==
  /\ tick.mode = "ERROR" /\ prev.mode = "NORMAL"
  /\ prev.before = TickSig(tick)
  /\ IsFaultPair(tick)

(* C12: no poll outcome ends the loop: after a tick whose fetch failed or  *)
(* whose payload was malformed the loop is running and each kind of        *)
(* iteration, every one of which begins with a new poll, can be the next.  *)
C12_LoopSurvivesEveryPoll ==
  /\ Running
  /\ (Ran /\ Escaped(tick))
       => (ENABLED KlippyFault /\ ENABLED InfoFailed /\ ENABLED QueryFailed
           /\ ENABLED Dashboard)

C12_MalformedAfterFailedTick ==
  /\ tick.mode = "DEGRADED" /\ tick.cause = "KeyError" /\ tick.info # Raise
  /\ prev.mode = "DEGRADED" /\ prev.msg = ExcMsg("Timeout")
  /\ Running

(* C13: a tick that is not NORMAL pushes no panel frame, and when it       *)
(* pushes it pushes one fault frame to each channel, LEFT and RIGHT, with  *)
(* the same title, message and background.                                 *)
C13_FaultOverridesBothChannels ==
  tick.mode # "NORMAL"
    => /\ \A k \in 1..Len(tick.pushes) : tick.pushes[k].kind = "fault"
       /\ tick.pushes # <<>>
            => /\ IsFaultPair(tick)
               /\ tick.pushes[1].bg = tick.pushes[2].bg

C13_DegradedPairAfterDashboard ==
  /\ tick.mode = "DEGRADED" /\ prev.mode = "NORMAL"
  /\ IsFaultPair(tick) /\ AllBg(tick, "default")

(* ==================== properties of the integrators ==================== *)
(* C15: after every advance the fan phase and both extruder phases lie in  *)
(* [0, 2*pi), whatever the rate and the dt.                                *)
C15_PhaseWithinTurn ==
  /\ FAN_PHASE \in 0..(TURN - 1)
  /\ \A i \in Panels : EXTRUDER_PHASE[i] \in 0..(TURN - 1)

(* C16: on a dashboard tick that has a tick before it, the fan phase and   *)
(* the extruder phases advance by their rate times the time measured       *)
(* between the two ticks (for the extruder within its clamp), never by the *)
(* nominal poll period.                                                    *)
C16_BothIntegrateMeasuredDt ==
  [][(tick'.mode = "NORMAL" /\ last_tick_time # NoTime)
       => LET gap  == tick'.at - last_tick_time
              duty == tick'.fp[0][1]
          IN /\ FAN_PHASE' = PyMod(FAdd(FAN_PHASE, FMul(FanRps(duty), gap)), TURN)
             /\ \A i \in Panels :
                  EXTRUDER_PHASE'[i] =
                    ExtruderAdvance(EXTRUDER_PHASE[i], EXTRUDER_VEL_EMA'[i],
                                    clamp(gap, 0, DT_CLAMP))]_vars

(* C17: the dt of the extruder integrator is within [0, DT_CLAMP] on every *)
(* dashboard tick, the first one and the first after fault ticks or a      *)
(* stall included, and the phase moves by the smoothed rate times that dt, *)
(* so by no more than |omega| * DT_CLAMP.                                  *)
Abs(x) == IF x < 0 THEN -x ELSE x

C17_ExtruderDtClamped ==
  [][tick'.mode = "NORMAL"
       => /\ adv'.dt \in 0..DT_CLAMP
          /\ last_tick_time = NoTime => adv'.dt = PERIOD
          /\ \A i \in Panels :
               /\ EXTRUDER_PHASE'[i] =
                    ExtruderAdvance(EXTRUDER_PHASE[i], EXTRUDER_VEL_EMA'[i], adv'.dt)
               /\ Abs(FMul(Omega(EXTRUDER_VEL_EMA'[i]), adv'.dt))
                    <= Abs(Omega(EXTRUDER_VEL_EMA'[i])) * DT_CLAMP]_vars

C17_StallClamped ==
  /\ tick.mode = "NORMAL"
  /\ adv.gap > DT_CLAMP /\ adv.dt = DT_CLAMP
  /\ EXTRUDER_VEL_EMA[0] # 0

(* C18: every advance sets the smoothed rate to (1-alpha)*smoothed +       *)
(* alpha*raw; with alpha = 1 the smoothed rate is the raw rate, and after  *)
(* n advances with one raw rate r and one dt the phase is the start phase  *)
(* plus spinDirection * 2*pi * r / unitsPerRevolution * n * dt, mod 2*pi   *)
(* (up to one float rounding per advance when the increment is below the   *)
(* float spacing).                                                         *)
Expected(a) ==
  (a.from + EXTRUDER_SPIN_DIR * ((TURN * a.raw) \div MM_PER_REV) * a.n * a.dt) % TURN

CircDist(x, y) ==
  LET d == (x - y) % TURN
  IN IF d <= TURN - d THEN d ELSE TURN - d

Tolerance(a) == IF (Omega(a.raw) * a.dt) % GRID = 0 THEN 0 ELSE a.n

Returned   == eye.was = "opening" /\ blink_state.phase = "idle"
BlinkBegan == eye.was = "idle" /\ blink_state.phase = "closing"

(* C19 as stated: when the cycle returns from OPENING to IDLE the amount   *)
(* is 0 and a new nextTriggerAt is scheduled at that moment, later than    *)
(* now by at least the minimum blink interval.                             *)
C19_NewTriggerOnReturn ==
  Returned => /\ blink_state.amt = 0
              /\ next_blink > now
              /\ next_blink >= now + MIN_BLINK_SEC

(* C19 amended: the next trigger is scheduled when a blink begins (IDLE to *)
(* CLOSING), between the minimum and the maximum interval after that       *)
(* moment; the return from OPENING to IDLE sets the amount to 0 and leaves *)
(* the trigger as it is, so it lies that far after the beginning of the    *)
(* blink, not after its end, and is not later than now when the blink took *)
(* as long as the interval drawn.                                          *)
C19_TriggerScheduledWhenBlinkBegins ==
  /\ BlinkBegan => /\ eye.trig = now
                   /\ next_blink \in (now + MIN_BLINK_SEC)..(now + MAX_BLINK_SEC)
  /\ Returned => /\ blink_state = IdleBlink
                 /\ next_blink = eye.due
                 /\ next_blink \in (eye.trig + MIN_BLINK_SEC)..(eye.trig + MAX_BLINK_SEC)
                 /\ now >= eye.trig + BLINK_TIME + BLINK_HOLD + BLINK_TIME

C19_ReturnAfterStalledBlink ==
  /\ Returned /\ blink_state.amt = 0
  /\ next_blink <= now

(* C20: the amount is always in [0,1], 0 in IDLE and 1 in CLOSED; from one *)
(* frame to the next it does not decrease in CLOSING and does not increase *)
(* in OPENING.                                                             *)
C20_AmountBoundedAndMonotone ==
  /\ blink_state.amt \in 0..AMT_ONE
  /\ blink_state.phase = "idle" => blink_state.amt = 0
  /\ blink_state.phase = "closed" => blink_state.amt = AMT_ONE
  /\ (blink_state.phase = "closing" /\ eye.was \in {"idle", "closing"})
       => blink_state.amt >= eye.amt0
  /\ (blink_state.phase = "opening" /\ eye.was \in {"closed", "opening"})
       => blink_state.amt <= eye.amt0
  /\ \A k \in 1..Len(eye.pushed) : eye.pushed[k].amt = blink_state.amt

C20_HalfOpen ==
  /\ blink_state.phase = "opening" /\ eye.was = "opening"
  /\ 0 < blink_state.amt /\ blink_state.amt < eye.amt0

(* C21: from one frame to the next the blink phase stays or moves one step *)
(* along idle, closing, closed, opening, idle, and it moves exactly when   *)
(* the guard of that step holds at the new frame: the clock reached the    *)
(* next trigger, the closing time passed, the hold time passed, the        *)
(* opening ramp reached 0.  With a frame at each boundary the lids are     *)
(* closed, amount 1, the closing time after the blink began and opening    *)
(* the hold time after that.                                               *)
BlinkOrder == {<<"idle", "closing">>, <<"closing", "closed">>,
               <<"closed", "opening">>, <<"opening", "idle">>}

C21_OneStepAlongTheCycle ==
  [][LET p == blink_state.phase
         q == blink_state'.phase
         e == now' - blink_state.t_start
     IN /\ q # p => <<p, q>> \in BlinkOrder
        /\ p = "idle" => (q = "closing" <=> now' >= next_blink)
        /\ p = "closing" => (q = "closed" <=> e >= BLINK_TIME)
        /\ p = "closed" => (q = "opening" <=> e >= BLINK_HOLD)
        /\ p = "opening" => (q = "idle" <=> e >= BLINK_TIME)
        /\ (p = "closing" /\ now' = eye.trig + BLINK_TIME)
             => (q = "closed" /\ blink_state'.amt = AMT_ONE)
        /\ ( /\ p = "closed" /\ blink_state.t_start = eye.trig + BLINK_TIME
             /\ now' = eye.trig + BLINK_TIME + BLINK_HOLD ) => q = "opening"]_vars

C21_OpeningOnTheBoundary ==
  /\ blink_state.phase = "opening" /\ eye.was = "closed"
  /\ blink_state.t_start = now
  /\ now = eye.trig + BLINK_TIME + BLINK_HOLD

(* C22: after a SIGINT no further frame of the loop begins and at most the *)
(* frame in progress ends; then the finally block pushes, LEFT then RIGHT, *)
(* the lid amounts 0.0, 0.4, 0.8, 1.0, 0.6, 0.2, 0.0 and a last 0.0, once, *)
(* whatever further SIGINTs arrive, and the process ends with amount 0 on  *)
(* both channels.                                                          *)
RECURSIVE FinalPushes(_)
FinalPushes(k) == IF k = 0 THEN <<>> ELSE FinalPushes(k - 1) \o FinalFrame(FinalSeq[k])

C22_Safe ==
  /\ sigint.begun = 0 /\ sigint.ended <= 1
  /\ Len(final) % 2 = 0 /\ Len(final) <= 2 * Len(FinalSeq)
  /\ final = FinalPushes(Len(final) \div 2)
  /\ final # <<>> => (~running /\ pc \in {"final", "done"})
  /\ pc = "done" => /\ final = FinalPushes(Len(FinalSeq))
                    /\ final[Len(final) - 1] = [chan |-> "LEFT", amt |-> 0]
                    /\ final[Len(final)] = [chan |-> "RIGHT", amt |-> 0]

C22_FinalSequenceOnceThenExit ==
  /\ []C22_Safe
  /\ (sigint.count > 0) ~> (pc = "done")
  /\ [][pc = "done" => pc' = "done"]_vars

C22_InterruptedFrameThenDone ==
  /\ pc = "done" /\ sigint.count = 2 /\ sigint.ended = 1
  /\ blink_state.phase = "closing"
  /\ Len(final) = 16

(* ===================== properties of needs_redraw ====================== *)
(* C14: needs_redraw for a channel returns true and stores the fingerprint *)
(* exactly when it differs from the one stored for that channel, and       *)
(* returns false and leaves the store alone otherwise; the other channel's *)
(* store is never touched.  So the first call for a channel returns true,  *)
(* a call with the fingerprint just stored returns false and a call that   *)
(* differs in a single field returns true.                                 *)
C14_RedrawIffFingerprintDiffers ==
  [][LET i  == redraw'.panel
         fp == redraw'.state
     IN /\ redraw'.ret <=> (last_frame_data[i] # fp)
        /\ last_frame_data'[i] = fp
        /\ last_frame_data'[1 - i] = last_frame_data[1 - i]
        /\ ~redraw'.ret => last_frame_data' = last_frame_data
        /\ last_frame_data[i] = <<>> => redraw'.ret
        /\ redraw'.diff = 1 => redraw'.ret
        /\ redraw'.diff = 0 => ~redraw'.ret]_vars

C14_SingleFieldDiffers ==
  /\ redraw.done /\ redraw.diff = 1 /\ redraw.ret
  /\ last_frame_data[redraw.panel] = redraw.state
  /\ last_frame_data[1 - redraw.panel] # <<>>
  /\ last_frame_data[1 - redraw.panel] # redraw.state

(* ================= properties of process_m117_messages ================= *)
WasExpired == call.pre.msg # None /\ (call.at - call.pre.ts) > M117_CLEAR_TIMEOUT
IsOld(ev) == ev.time # NoTime /\ call.pre.seen # NoTime /\ ev.time <= call.pre.seen
IsNew(ev) == ev.time # NoTime /\ (call.pre.seen = NoTime \/ ev.time > call.pre.seen)

MaxObserved ==
  LET S == ({call.evs[i].time : i \in 1..Len(call.evs)} \cup {call.pre.seen}) \ {NoTime}
  IN IF S = {} THEN NoTime ELSE CHOOSE m \in S : \A x \in S : x <= m

(* C5 as stated: after every call lastSourceSequence is the maximum of its *)
(* previous value and the sequence numbers of the call's events.           *)
C5_SeenIsMaxAfterEveryCall ==
  call.done => last_seen_gcode_time = MaxObserved

(* C5 amended: that holds after every call that does not begin by expiring *)
(* the active message; a call that expires the message returns at once and *)
(* leaves lastSourceSequence unchanged.                                    *)
C5_SeenIsMaxUnlessExpired ==
  call.done => last_seen_gcode_time = IF WasExpired THEN call.pre.seen ELSE MaxObserved

C5_SeenAdvancedMessageKept ==
  /\ call.done /\ ~WasExpired /\ ~call.changed
  /\ m117_message = call.pre.msg /\ m117_message # None
  /\ last_seen_gcode_time > call.pre.seen

(* C6: lastSourceSequence never decreases, and events whose sequence is    *)
(* not above lastSourceSequence at call time change neither the text nor   *)
(* firstSeenAt: the call ends as it would without them.                    *)
WithoutOld == SelectSeq(call.evs, LAMBDA ev : ~IsOld(ev))

C6_SeenMonotoneOldIgnored ==
  call.done
    => /\ last_seen_gcode_time >= call.pre.seen
       /\ ((\A i \in 1..Len(call.evs) : IsOld(call.evs[i])) /\ ~WasExpired)
            => (m117_message = call.pre.msg /\ m117_timestamp_mono = call.pre.ts)
       /\ LET r == ProcessM117(call.pre.msg, call.pre.ts, call.pre.seen, WithoutOld, call.at)
          IN m117_message = r.msg /\ m117_timestamp_mono = r.ts

C6_OldEventWithOtherText ==
  /\ call.done /\ ~WasExpired /\ call.evs # <<>>
  /\ \A i \in 1..Len(call.evs) :
       /\ IsOld(call.evs[i]) /\ call.evs[i].time = call.pre.seen
       /\ DisplayMsg(call.evs[i].message) \notin {"", call.pre.msg}
  /\ m117_message = call.pre.msg /\ m117_message # None

(* C7 as stated: the state after every call is the fold of "empty text     *)
(* clears, other text replaces and stamps now" over the qualifying events  *)
(* in the given order.                                                     *)
RECURSIVE Folded(_, _)
Folded(st, evs) ==
  IF evs = <<>> THEN st
  ELSE LET ev   == Head(evs)
           text == DisplayMsg(ev.message)
           nxt  == IF ~IsNew(ev) \/ ~IsM117(ev.message) THEN st
                   ELSE IF text = "" THEN [st EXCEPT !.msg = None]
                   ELSE IF text # st.msg THEN [msg |-> text, ts |-> call.at]
                   ELSE st
       IN Folded(nxt, Tail(evs))

IsFolded ==
  LET w == Folded([msg |-> call.pre.msg, ts |-> call.pre.ts], call.evs)
  IN m117_message = w.msg /\ (w.msg # None => m117_timestamp_mono = w.ts)

C7_CallIsFoldOfEvents == call.done => IsFolded

(* C7 amended: that holds for every call that does not begin by expiring   *)
(* the active message; a call that expires the message only clears it and  *)
(* applies none of its events.                                             *)
C7_CallIsFoldUnlessExpired ==
  call.done => IF WasExpired
               THEN m117_message = None /\ m117_timestamp_mono = call.pre.ts
               ELSE IsFolded

C7_TwoEventsApplied ==
  /\ call.done /\ ~WasExpired /\ Len(call.evs) = 2
  /\ \A i \in 1..2 : IsNew(call.evs[i]) /\ IsM117(call.evs[i].message)
  /\ DisplayMsg(call.evs[1].message) \notin {"", call.pre.msg}
  /\ DisplayMsg(call.evs[2].message) \notin {"", DisplayMsg(call.evs[1].message)}
  /\ m117_message = DisplayMsg(call.evs[2].message)
  /\ m117_timestamp_mono = call.at

(* C23: an event with a new sequence number whose non-empty text is the    *)
(* text of the active message leaves the text and firstSeenAt as they      *)
(* were and reports no change, so the message expires timeout after it was *)
(* first seen; lastSourceSequence alone advances.                          *)
RepeatsActive(ev) ==
  /\ IsNew(ev) /\ IsM117(ev.message)
  /\ call.pre.msg # None /\ DisplayMsg(ev.message) = call.pre.msg

OnlyRepeats ==
  /\ ~WasExpired
  /\ \E i \in 1..Len(call.evs) : RepeatsActive(call.evs[i])
  /\ \A i \in 1..Len(call.evs) :
       (IsNew(call.evs[i]) /\ IsM117(call.evs[i].message)) => RepeatsActive(call.evs[i])

C23_RepeatedTextKeepsFirstSeen ==
  (call.done /\ OnlyRepeats)
    => /\ m117_message = call.pre.msg
       /\ m117_timestamp_mono = call.pre.ts
       /\ ~call.changed
       /\ last_seen_gcode_time = MaxObserved
       /\ last_seen_gcode_time > call.pre.seen \/ call.pre.seen = NoTime
       /\ \A a \in 0..(M117_CLEAR_TIMEOUT + MaxAge + 1) :
            Expired(m117_message, m117_timestamp_mono, call.at + a)
              <=> (call.at + a) - call.pre.ts > M117_CLEAR_TIMEOUT

C23_RepeatedLaterThanFirstSeen ==
  /\ call.done /\ OnlyRepeats
  /\ call.at > call.pre.ts
  /\ call.pre.seen # NoTime /\ last_seen_gcode_time > call.pre.seen
  /\ m117_timestamp_mono = call.pre.ts /\ m117_message = call.pre.msg

(* ====================== properties of the fault tick ==================== *)
(* C24: a tick classified as ERROR changes none of the fan phase, the two  *)
(* extruder phases, the two smoothed velocities, the last-tick timestamp,  *)
(* the active message, its firstSeenAt, lastSourceSequence and the poll    *)
(* counter; of the program's state it may change the stored fault          *)
(* signature only, to the signature of the fault it shows.                 *)
C24_ErrorTickKeepsDashboardState ==
  [][tick'.mode = "ERROR"
       => /\ FAN_PHASE' = FAN_PHASE
          /\ \A i \in Panels : /\ EXTRUDER_PHASE'[i] = EXTRUDER_PHASE[i]
                               /\ EXTRUDER_VEL_EMA'[i] = EXTRUDER_VEL_EMA[i]
          /\ last_tick_time' = last_tick_time
          /\ m117_message' = m117_message
          /\ m117_timestamp_mono' = m117_timestamp_mono
          /\ last_seen_gcode_time' = last_seen_gcode_time
          /\ gcode_check_counter' = gcode_check_counter
          /\ last_err' \in {last_err,
                             <<tick'.title, tick'.msg, FlashPhase(tick'.at)>>}]_vars

C24_FaultDuringLiveDashboard ==
  /\ tick.mode = "ERROR" /\ tick.pushes # <<>>
  /\ last_err = <<tick.title, tick.msg, FlashPhase(tick.at)>>
  /\ FAN_PHASE # 0
  /\ \A i \in Panels : EXTRUDER_PHASE[i] # 0 /\ EXTRUDER_VEL_EMA[i] # 0
  /\ last_tick_time # NoTime /\ now > last_tick_time
  /\ m117_message = "hello" /\ last_seen_gcode_time = 1
  /\ gcode_check_counter > 0

====
